---------------------------- MODULE Spec2Model ----------------------------
(*************************************************************************)
(* Model of the W-2 field extraction service (src/api/fastOne.py).       *)
(*                                                                       *)
(* Three specifications share the variables below:                       *)
(*   Spec      one HTTP request to /extract or /extract_base64, stepped  *)
(*             at the blocking OCR calls;                                *)
(*   SpecClean clean_extracted_text applied once and twice to a text;    *)
(*   SpecTrim  trim_whitespace applied to a small raster image.          *)
(* Texts are TLA+ strings; Len, SubSeq, Tail and \o act on them.         *)
(*************************************************************************)
EXTENDS Integers, Sequences, FiniteSets, TLC

VARIABLES
    endpoint,        \* "extract" or "extract_base64"
    content_type,    \* file.content_type of the upload (/extract only)
    upload,          \* the submitted bytes: "corrupt" or a decodable image
    pc,              \* handler position: received, ocr, clean or done
    decoded,         \* whether Image.open(...) has been called
    resized_image,   \* the normalized image handed to the field loop
    field_idx,       \* table row of the OCR call in flight (0: none)
    cropped_img,     \* the crop sent with the OCR call in flight
    ocr_calls,       \* rows for which an OCR call was issued, in order
    raw_text,        \* raw OCR text received per row, in order
    cleaned_rows,    \* rows whose text has been cleaned, in order
    extracted_data,  \* the dict built by extract_text_from_svg_fields
    text_replies,    \* number of non-empty OCR replies so far
    response,        \* what the caller receives
    c_field,         \* SpecClean: row of the field being cleaned
    c_text,          \* SpecClean: the raw text
    c_once,          \* SpecClean: clean_extracted_text(field, text)
    c_twice,         \* SpecClean: the cleaner applied to c_once
    c_pc,            \* SpecClean: "raw", "once" or "twice"
    drawn,           \* SpecTrim: how the input image was drawn
    image,           \* SpecTrim: the input image
    trimmed,         \* SpecTrim: trim_whitespace(image)
    t_pc             \* SpecTrim: "input" or "trimmed"

reqVars == <<endpoint, content_type, upload, pc, decoded, resized_image,
             field_idx, cropped_img, ocr_calls, raw_text, cleaned_rows,
             extracted_data, text_replies, response>>
cleanVars == <<c_field, c_text, c_once, c_twice, c_pc>>
trimVars == <<drawn, image, trimmed, t_pc>>
vars == <<reqVars, cleanVars, trimVars>>

None == "none"

-----------------------------------------------------------------------------
(* Bounds of the model.                                                    *)

\* longest raw text of SpecClean, in tokens
MaxTokens == 3
\* non-empty OCR replies per request
MaxTextReplies == 1
\* largest image of SpecTrim
MaxImgW == 3
MaxImgH == 3

-----------------------------------------------------------------------------
(* Program constants.                                                      *)

TEMPLATE_WIDTH == 1100
TEMPLATE_HEIGHT == 701

\* svg_mapped_fields, in insertion order.  x2 and y2 are twice the x and y
\* of the source (every one of them is k + 0.5), so that they are integers.
svg_mapped_fields == <<
    [name |-> "Employee SSN", x2 |-> 1, y2 |-> 1, width |-> 235, height |-> 49],
    [name |-> "a Employee's social security number", x2 |-> 471, y2 |-> 3, width |-> 261, height |-> 48],
    [name |-> "OMB No .", x2 |-> 995, y2 |-> 5, width |-> 597, height |-> 48],
    [name |-> "b Employer identification number EIN", x2 |-> 1, y2 |-> 99, width |-> 598, height |-> 50],
    [name |-> "1 Wages, tips, other compensation", x2 |-> 1197, y2 |-> 99, width |-> 249, height |-> 49],
    [name |-> "2 Federal income tax withheld", x2 |-> 1697, y2 |-> 99, width |-> 246, height |-> 49],
    [name |-> "3 Social security wages", x2 |-> 1197, y2 |-> 199, width |-> 249, height |-> 49],
    [name |-> "4 Social security tax withheld", x2 |-> 1697, y2 |-> 199, width |-> 246, height |-> 49],
    [name |-> "5 Medical wages and tips", x2 |-> 1197, y2 |-> 299, width |-> 249, height |-> 49],
    [name |-> "6 Medicare tax withheld", x2 |-> 1697, y2 |-> 299, width |-> 246, height |-> 49],
    [name |-> "7 Social security tips", x2 |-> 1197, y2 |-> 395, width |-> 249, height |-> 49],
    [name |-> "8 Allocated tips", x2 |-> 1697, y2 |-> 395, width |-> 246, height |-> 49],
    [name |-> "10 Dependent care benefits", x2 |-> 1697, y2 |-> 495, width |-> 246, height |-> 49],
    [name |-> "12a See instructions for box 12", x2 |-> 1697, y2 |-> 593, width |-> 246, height |-> 47],
    [name |-> "12b", x2 |-> 1697, y2 |-> 687, width |-> 246, height |-> 49],
    [name |-> "11 Nonqualified plans", x2 |-> 1199, y2 |-> 589, width |-> 249, height |-> 49],
    [name |-> "12c", x2 |-> 1697, y2 |-> 785, width |-> 246, height |-> 49],
    [name |-> "12d", x2 |-> 1697, y2 |-> 883, width |-> 246, height |-> 49],
    [name |-> "c Employer's name, address, and ZIP code", x2 |-> 1, y2 |-> 199, width |-> 598, height |-> 147],
    [name |-> "d Control number", x2 |-> 1, y2 |-> 493, width |-> 599, height |-> 48],
    [name |-> "e Employee's first name and initial, last name", x2 |-> 1, y2 |-> 589, width |-> 600, height |-> 220],
    [name |-> "Employer's id number", x2 |-> 1, y2 |-> 1029, width |-> 322, height |-> 46],
    [name |-> "16 State wages, tips", x2 |-> 645, y2 |-> 1029, width |-> 174, height |-> 48],
    [name |-> "17 State income tax", x2 |-> 993, y2 |-> 1029, width |-> 161, height |-> 48],
    [name |-> "18 Local wages, tips", x2 |-> 1313, y2 |-> 1029, width |-> 176, height |-> 48],
    [name |-> "19 Local income tax", x2 |-> 1667, y2 |-> 1029, width |-> 159, height |-> 48] >>

NumFields == Len(svg_mapped_fields)
Rows == 1..NumFields
FieldName(i) == svg_mapped_fields[i].name

-----------------------------------------------------------------------------
(* Characters and the string primitives of Python used by the cleaner.     *)

Char(s, i) == SubSeq(s, i, i)
Drop(s, n) == SubSeq(s, n + 1, Len(s))

UpperChars == "ABCDEFGHIJKLMNOPQRSTUVWXYZ"
LowerChars == "abcdefghijklmnopqrstuvwxyz"
DigitChars == "0123456789"
CharsOf(s) == {Char(s, i) : i \in 1..Len(s)}
UpperSet == CharsOf(UpperChars)
LowerSet == CharsOf(LowerChars)
DigitSet == CharsOf(DigitChars)

\* \s of the regular expressions, and what str.strip() strips
IsSpace(c) == c \in {" ", "\t", "\n", "\r", "\f"}
\* \d
IsDigit(c) == c \in DigitSet
\* \w
IsWord(c) == c \in UpperSet \cup LowerSet \cup DigitSet \cup {"_"}

\* case folding of re.IGNORECASE
LowerChar(c) ==
    IF c \in UpperSet
    THEN Char(LowerChars, CHOOSE i \in 1..Len(UpperChars) : Char(UpperChars, i) = c)
    ELSE c

RECURSIVE LowerStr(_)
LowerStr(s) ==
    IF s = "" THEN "" ELSE LowerChar(Char(s, 1)) \o LowerStr(Tail(s))

RECURSIVE LStrip(_)
LStrip(s) ==
    IF s # "" /\ IsSpace(Char(s, 1)) THEN LStrip(Tail(s)) ELSE s

RECURSIVE RStrip(_)
RStrip(s) ==
    IF s # "" /\ IsSpace(Char(s, Len(s)))
    THEN RStrip(SubSeq(s, 1, Len(s) - 1))
    ELSE s

\* str.strip()
Strip(s) == LStrip(RStrip(s))

\* str.replace(phrase, ""): one left-to-right scan, matches do not overlap
RECURSIVE Replace(_, _)
Replace(s, phrase) ==
    IF Len(s) < Len(phrase) \/ phrase = "" THEN s
    ELSE IF SubSeq(s, 1, Len(phrase)) = phrase
         THEN Replace(Drop(s, Len(phrase)), phrase)
         ELSE Char(s, 1) \o Replace(Tail(s), phrase)

\* re.sub(re.escape(name), '', s, flags=re.IGNORECASE), name already folded
RECURSIVE SubIgnoreCase(_, _)
SubIgnoreCase(s, lname) ==
    IF Len(s) < Len(lname) \/ lname = "" THEN s
    ELSE IF /\ LowerChar(Char(s, 1)) = Char(lname, 1)
            /\ LowerStr(SubSeq(s, 1, Len(lname))) = lname
         THEN SubIgnoreCase(Drop(s, Len(lname)), lname)
         ELSE Char(s, 1) \o SubIgnoreCase(Tail(s), lname)

\* s contains sub as a substring
Contains(s, sub) ==
    \E i \in 0..(Len(s) - Len(sub)) : SubSeq(s, i + 1, i + Len(sub)) = sub

-----------------------------------------------------------------------------
(* clean_extracted_text.                                                   *)

unwanted_phrases == <<"For Official Use Only", "VOID">>

money_fields == <<
    "Wages, tips, other compensation", "Federal income tax withheld",
    "Social security wages", "Social security tax withheld",
    "Medical wages and tips", "Medicare tax withheld" >>

\* any(money_field in field_name for money_field in money_fields)
IsMoneyField(field_name) ==
    \E i \in 1..Len(money_fields) : Contains(field_name, money_fields[i])

\* the phrases are removed one after the other, in list order
RECURSIVE RemovePhrases(_, _)
RemovePhrases(s, k) ==
    IF k > Len(unwanted_phrases) THEN s
    ELSE RemovePhrases(Replace(s, unwanted_phrases[k]), k + 1)

\* number of digits at positions i, i+1, ... of s, counted up to most
RECURSIVE DigitRun(_, _, _)
DigitRun(s, i, most) ==
    IF most = 0 \/ i > Len(s) \/ ~IsDigit(Char(s, i)) THEN 0
    ELSE 1 + DigitRun(s, i + 1, most - 1)

\* (?:,\d{3})* from position i, greedy: the position after the last group
RECURSIVE CommaGroups(_, _)
CommaGroups(s, i) ==
    IF i <= Len(s) /\ Char(s, i) = "," /\ DigitRun(s, i + 1, 3) = 3
    THEN CommaGroups(s, i + 4)
    ELSE i

\* DecimalPart without the decimals: the pattern stops before the point
DecimalPartDropped(s, i) == i

\* (?:\.\d{2})? from position i: the position after it
DecimalPart(s, i) ==
    IF i <= Len(s) /\ Char(s, i) = "." /\ DigitRun(s, i + 1, 2) = 2
    THEN i + 3
    ELSE i

\* \$\d{1,3}(?:,\d{3})*(?:\.\d{2})? matched at position i of s: the position
\* after the match, or 0 when the pattern does not match there.  Every part
\* after \$\d is optional, so the greedy first try is the match.
MoneyMatchEnd(s, i) ==
    IF i <= Len(s) /\ Char(s, i) = "$" /\ DigitRun(s, i + 1, 3) >= 1
    THEN DecimalPart(s, CommaGroups(s, i + 1 + DigitRun(s, i + 1, 3)))
    ELSE 0

\* re.search: the match at the leftmost position that has one
MoneySearch(s) ==
    LET starts == {i \in 1..Len(s) : MoneyMatchEnd(s, i) # 0}
    IN  IF starts = {} THEN [found |-> FALSE, group |-> ""]
        ELSE LET i == CHOOSE j \in starts : \A k \in starts : j <= k
             IN  [found |-> TRUE, group |-> SubSeq(s, i, MoneyMatchEnd(s, i) - 1)]

\* re.sub(r'\s+', ' ', s)
RECURSIVE CollapseSpace(_)
CollapseSpace(s) ==
    IF s = "" THEN ""
    ELSE IF IsSpace(Char(s, 1)) THEN " " \o CollapseSpace(LStrip(s))
         ELSE Char(s, 1) \o CollapseSpace(Tail(s))

\* re.sub(r'[^\w\s\.\,\$\-]', '', s)
IsKept(c) == IsWord(c) \/ IsSpace(c) \/ c \in {".", ",", "$", "-"}

RECURSIVE RemoveNoise(_)
RemoveNoise(s) ==
    IF s = "" THEN ""
    ELSE (IF IsKept(Char(s, 1)) THEN Char(s, 1) ELSE "") \o RemoveNoise(Tail(s))

\* lines 101-105: strip, boilerplate removal, label removal
StripLabel(field_name, extracted_text) ==
    SubIgnoreCase(RemovePhrases(Strip(extracted_text), 1), LowerStr(field_name))

\* lines 113-116: a monetary field keeps only the first amount, if any
MoneyStep(field_name, s) ==
    IF IsMoneyField(field_name) /\ MoneySearch(s).found
    THEN MoneySearch(s).group
    ELSE s

clean_extracted_text(field_name, extracted_text) ==
    Strip(RemoveNoise(CollapseSpace(
        MoneyStep(field_name, StripLabel(field_name, extracted_text)))))

-----------------------------------------------------------------------------
(* SpecClean: the cleaner applied to a raw text (line 138) and then to its  *)
(* own result (line 127), for every field of the table.                     *)

\* pieces of OCR output the raw texts are built from
Tokens == {"Wages ", "$35,000.00", " extra", "12b", "1", "2B", "!"}

RECURSIVE TextsUpTo(_)
TextsUpTo(n) ==
    IF n = 0 THEN {""}
    ELSE TextsUpTo(n - 1) \cup {t \o k : t \in TextsUpTo(n - 1), k \in Tokens}

RawTexts == TextsUpTo(MaxTokens)

NoImage == [w |-> 0, h |-> 0]
NoCrop == [row |-> 0, box |-> <<0, 0, 0, 0>>, w |-> 0, h |-> 0]
NoUpload == [valid |-> FALSE, image |-> NoImage]
NoResponse == [status |-> 0, detail |-> "", body |-> <<>>]

IdleRequest ==
    /\ endpoint = None /\ content_type = None /\ upload = NoUpload
    /\ pc = "idle" /\ decoded = FALSE /\ resized_image = NoImage
    /\ field_idx = 0 /\ cropped_img = NoCrop /\ ocr_calls = <<>>
    /\ raw_text = <<>> /\ cleaned_rows = <<>> /\ extracted_data = <<>>
    /\ text_replies = 0 /\ response = NoResponse

IdleClean ==
    /\ c_field = 0 /\ c_text = "" /\ c_once = "" /\ c_twice = ""
    /\ c_pc = "idle"

IdleTrim ==
    /\ drawn = None /\ image = NoImage /\ trimmed = NoImage /\ t_pc = "idle"

InitClean ==
    /\ c_field \in Rows
    /\ c_text \in RawTexts
    /\ c_once = "" /\ c_twice = ""
    /\ c_pc = "raw"
    /\ IdleRequest /\ IdleTrim

\* extract_text_from_svg_fields, line 138
CleanOnce ==
    /\ c_pc = "raw"
    /\ c_once' = clean_extracted_text(FieldName(c_field), c_text)
    /\ c_pc' = "once"
    /\ UNCHANGED <<c_field, c_text, c_twice, reqVars, trimVars>>

\* post_process_extracted_data, line 127
CleanTwice ==
    /\ c_pc = "once"
    /\ c_twice' = clean_extracted_text(FieldName(c_field), c_once)
    /\ c_pc' = "twice"
    /\ UNCHANGED <<c_field, c_text, c_once, reqVars, trimVars>>

NextClean == CleanOnce \/ CleanTwice

SpecClean == InitClean /\ [][NextClean]_vars

-----------------------------------------------------------------------------
(* Claims about clean_extracted_text, checked under SpecClean.              *)

AllDigits(s) == \A i \in 1..Len(s) : IsDigit(Char(s, i))

\* s is, as a whole: 1 to 3 digits, groups of a comma and exactly 3 digits,
\* and optionally a decimal point and exactly 2 digits
IsBareAmount(s) ==
    \E n \in 1..3, k \in 0..(Len(s) \div 4), d \in {0, 1} :
        /\ Len(s) = n + 4 * k + 3 * d
        /\ AllDigits(SubSeq(s, 1, n))
        /\ \A g \in 0..(k - 1) :
              /\ Char(s, n + 4 * g + 1) = ","
              /\ AllDigits(SubSeq(s, n + 4 * g + 2, n + 4 * g + 4))
        /\ d = 1 => /\ Char(s, Len(s) - 2) = "."
                    /\ AllDigits(SubSeq(s, Len(s) - 1, Len(s)))

\* an amount written with its dollar sign
IsDollarAmount(s) == s # "" /\ Char(s, 1) = "$" /\ IsBareAmount(Tail(s))

\* an amount whose dollar sign is optional
IsOptDollarAmount(s) == IsDollarAmount(s) \/ IsBareAmount(s)

HasDollarAmount(s) ==
    \E i \in 1..Len(s), j \in 1..Len(s) : IsDollarAmount(SubSeq(s, i, j))

HasOptDollarAmount(s) ==
    \E i \in 1..Len(s), j \in 1..Len(s) : IsOptDollarAmount(SubSeq(s, i, j))

\* the first amount of s: it starts at the leftmost position where an
\* amount starts and is the longest amount starting there
FirstDollarAmount(s) ==
    LET i == CHOOSE a \in 1..Len(s) :
                 /\ \E j \in 1..Len(s) : IsDollarAmount(SubSeq(s, a, j))
                 /\ \A b \in 1..(a - 1), j \in 1..Len(s) : ~IsDollarAmount(SubSeq(s, b, j))
        j == CHOOSE e \in 1..Len(s) :
                 /\ IsDollarAmount(SubSeq(s, i, e))
                 /\ \A f \in (e + 1)..Len(s) : ~IsDollarAmount(SubSeq(s, i, f))
    IN  SubSeq(s, i, j)

FirstOptDollarAmount(s) ==
    LET i == CHOOSE a \in 1..Len(s) :
                 /\ \E j \in 1..Len(s) : IsOptDollarAmount(SubSeq(s, a, j))
                 /\ \A b \in 1..(a - 1), j \in 1..Len(s) : ~IsOptDollarAmount(SubSeq(s, b, j))
        j == CHOOSE e \in 1..Len(s) :
                 /\ IsOptDollarAmount(SubSeq(s, i, e))
                 /\ \A f \in (e + 1)..Len(s) : ~IsOptDollarAmount(SubSeq(s, i, f))
    IN  SubSeq(s, i, j)

\* C3 as stated: for a monetary field whose label-stripped text contains an
\* amount, with or without a dollar sign, the cleaner returns exactly the
\* first such amount.
C3_FirstAmountOptionalDollar ==
    (c_pc # "raw" /\ IsMoneyField(FieldName(c_field))
        /\ HasOptDollarAmount(StripLabel(FieldName(c_field), c_text)))
    => c_once = FirstOptDollarAmount(StripLabel(FieldName(c_field), c_text))

\* C3 amended: for a monetary field whose label-stripped text contains an
\* amount that starts with a dollar sign, the cleaner returns exactly the
\* first such amount; an amount without a dollar sign is not extracted.
C3_FirstDollarAmount ==
    (c_pc # "raw" /\ IsMoneyField(FieldName(c_field)))
    => IF HasDollarAmount(StripLabel(FieldName(c_field), c_text))
       THEN c_once = FirstDollarAmount(StripLabel(FieldName(c_field), c_text))
       ELSE c_once = Strip(RemoveNoise(CollapseSpace(
                         StripLabel(FieldName(c_field), c_text))))

C3_Witness ==
    /\ c_pc = "once"
    /\ FieldName(c_field) = "1 Wages, tips, other compensation"
    /\ c_text = "Wages $35,000.00 extra"
    /\ c_once = "$35,000.00"

\* C4: cleaning an already cleaned text gives the same text.
C4_Idempotent == c_pc = "twice" => c_twice = c_once

\* s contains name, compared without regard to case
ContainsIgnoreCase(s, name) == Contains(LowerStr(s), LowerStr(name))

\* C5: the cleaned text contains no case-insensitive occurrence of the
\* field's own name.
C5_NoLabelInResult ==
    c_pc # "raw" => ~ContainsIgnoreCase(c_once, FieldName(c_field))

-----------------------------------------------------------------------------
(* Images and trim_whitespace.                                              *)
(* An image is [w, h, px]: px maps <<x, y>>, 0 <= x < w, 0 <= y < h, to an  *)
(* RGB triple.  A box is <<left, upper, right, lower>>, right and lower     *)
(* exclusive, as in PIL.                                                    *)

Pixels(w, h) == (0..(w - 1)) \X (0..(h - 1))
Channels == 1..3

Abs(n) == IF n < 0 THEN -n ELSE n
Clip8(n) == IF n < 0 THEN 0 ELSE IF n > 255 THEN 255 ELSE n

\* Image.new(mode, size, color)
NewImage(w, h, color) == [w |-> w, h |-> h, px |-> [p \in Pixels(w, h) |-> color]]

\* ImageChops.difference(a, b): abs(a - b) per channel
ChopsDifference(a, b) ==
    [w |-> a.w, h |-> a.h,
     px |-> [p \in Pixels(a.w, a.h) |->
                [c \in Channels |-> Abs(a.px[p][c] - b.px[p][c])]]]

\* ImageChops.add(a, b, scale, offset): (a + b) / scale + offset, clipped
ChopsAdd(a, b, scale, offset) ==
    [w |-> a.w, h |-> a.h,
     px |-> [p \in Pixels(a.w, a.h) |->
                [c \in Channels |->
                    Clip8(((a.px[p][c] + b.px[p][c]) \div scale) + offset)]]]

SetMin(S) == CHOOSE m \in S : \A n \in S : m <= n
SetMax(S) == CHOOSE m \in S : \A n \in S : m >= n

\* GetBBox with right and lower inclusive
GetBBoxInclusive(im) ==
    LET nz == {p \in Pixels(im.w, im.h) : \E c \in Channels : im.px[p][c] # 0}
    IN  IF nz = {} THEN <<>>
        ELSE << SetMin({p[1] : p \in nz}), SetMin({p[2] : p \in nz}),
                SetMax({p[1] : p \in nz}), SetMax({p[2] : p \in nz}) >>

\* Image.getbbox(): the bounding box of the pixels with a non-zero
\* channel, or the empty tuple (Python's None) when there is none
GetBBox(im) ==
    LET nz == {p \in Pixels(im.w, im.h) : \E c \in Channels : im.px[p][c] # 0}
    IN  IF nz = {} THEN <<>>
        ELSE << SetMin({p[1] : p \in nz}), SetMin({p[2] : p \in nz}),
                SetMax({p[1] : p \in nz}) + 1, SetMax({p[2] : p \in nz}) + 1 >>

\* Image.crop(box) for a box with integer edges inside the image
Crop(im, box) ==
    [w |-> box[3] - box[1], h |-> box[4] - box[2],
     px |-> [p \in Pixels(box[3] - box[1], box[4] - box[2]) |->
                im.px[<<p[1] + box[1], p[2] + box[2]>>]]]

\* the contrast boost of line 68: add(diff, diff, 2.0, -100)
BoostScale == 2
BoostOffset == -100

trim_whitespace(im) ==
    LET bg == NewImage(im.w, im.h, im.px[<<0, 0>>])
        diff == ChopsDifference(im, bg)
        boosted == ChopsAdd(diff, diff, BoostScale, BoostOffset)
        bbox == GetBBox(boosted)
    IN  IF bbox # <<>> THEN Crop(im, bbox) ELSE im

-----------------------------------------------------------------------------
(* SpecTrim: trim_whitespace on an image that is one color except for a     *)
(* rectangle of a second color.                                             *)

TrimColors == { <<255, 255, 255>>, <<0, 0, 0>>, <<155, 255, 255>>, <<154, 255, 255>> }

Boxes(w, h) ==
    {b \in (0..w) \X (0..h) \X (0..w) \X (0..h) : b[1] < b[3] /\ b[2] < b[4]}

InBox(p, box) ==
    /\ box[1] <= p[1] /\ p[1] < box[3]
    /\ box[2] <= p[2] /\ p[2] < box[4]

RectImage(w, h, bg, fg, box) ==
    [w |-> w, h |-> h,
     px |-> [p \in Pixels(w, h) |-> IF InBox(p, box) THEN fg ELSE bg]]

InitTrim ==
    /\ \E w \in 1..MaxImgW, h \in 1..MaxImgH, bg \in TrimColors, fg \in TrimColors :
          \E box \in Boxes(w, h) :
              /\ drawn = [bg |-> bg, fg |-> fg, box |-> box]
              /\ image = RectImage(w, h, bg, fg, box)
    /\ trimmed = NoImage
    /\ t_pc = "input"
    /\ IdleRequest /\ IdleClean

Trim ==
    /\ t_pc = "input"
    /\ trimmed' = trim_whitespace(image)
    /\ t_pc' = "trimmed"
    /\ UNCHANGED <<drawn, image, reqVars, cleanVars>>

NextTrim == Trim

SpecTrim == InitTrim /\ [][NextTrim]_vars

\* the colors differ by more than the contrast-boost tolerance
Tolerance == 100
OverTolerance(a, b) == \E c \in Channels : Abs(a[c] - b[c]) > Tolerance

\* no pixel of im is over the tolerance against the top-left pixel
NothingToTrim(im) ==
    \A p \in Pixels(im.w, im.h) : ~OverTolerance(im.px[p], im.px[<<0, 0>>])

\* the sub-image R: its size is R's, every pixel has R's color
IsRectangleR(im) ==
    /\ im.w = drawn.box[3] - drawn.box[1]
    /\ im.h = drawn.box[4] - drawn.box[2]
    /\ \A p \in Pixels(im.w, im.h) : im.px[p] = drawn.fg

\* C7 as stated: wherever R lies in the image, trimming returns exactly R
\* when R's color is over the tolerance, and the image unchanged when no
\* pixel has a non-zero boosted difference.
C7_TrimReturnsR ==
    t_pc = "trimmed" =>
        /\ OverTolerance(drawn.fg, drawn.bg) => IsRectangleR(trimmed)
        /\ NothingToTrim(image) => trimmed = image

\* C7 amended: the same, for every R that leaves the top-left pixel (0, 0)
\* outside, so that the pixel sampled as background has the background color.
C7_TrimReturnsRAwayFromCorner ==
    t_pc = "trimmed" =>
        /\ (OverTolerance(drawn.fg, drawn.bg) /\ ~InBox(<<0, 0>>, drawn.box))
              => IsRectangleR(trimmed)
        /\ NothingToTrim(image) => trimmed = image

C7_Witness ==
    /\ t_pc = "trimmed"
    /\ image.w = 3 /\ image.h = 3
    /\ drawn.box = <<1, 1, 2, 3>>
    /\ drawn.bg = <<255, 255, 255>> /\ drawn.fg = <<154, 255, 255>>
    /\ trimmed.w = 1 /\ trimmed.h = 2

-----------------------------------------------------------------------------
(* The request pipeline.                                                    *)

\* resize_image: the result has the target size whatever the input; its
\* pixels reach only the OCR service, whose reply the model leaves open
resize_image(im, target_width, target_height) ==
    [w |-> target_width, h |-> target_height]

\* round() of n2 / 2, half to even, as Image.crop rounds each edge of a box
RoundHalfEven(n2) ==
    IF n2 % 2 = 0 THEN n2 \div 2
    ELSE IF ((n2 - 1) \div 2) % 2 = 0 THEN (n2 - 1) \div 2
         ELSE ((n2 - 1) \div 2) + 1

\* line 136: image.crop((x, y, x + width, y + height)) for table row i
CropField(i) ==
    LET f == svg_mapped_fields[i]
        box == << RoundHalfEven(f.x2), RoundHalfEven(f.y2),
                  RoundHalfEven(f.x2 + 2 * f.width),
                  RoundHalfEven(f.y2 + 2 * f.height) >>
    IN  [row |-> i, box |-> box, w |-> box[3] - box[1], h |-> box[4] - box[2]]

\* a dict is the sequence of its items in insertion order
DictHas(d, key) == \E k \in 1..Len(d) : d[k].name = key

\* DictSet that puts a new key first
DictSetFront(d, key, value) ==
    IF DictHas(d, key)
    THEN [k \in 1..Len(d) |->
             IF d[k].name = key THEN [name |-> key, text |-> value] ELSE d[k]]
    ELSE <<[name |-> key, text |-> value]>> \o d

\* d[key] = value: a present key keeps its place, a new key goes last
DictSet(d, key, value) ==
    IF DictHas(d, key)
    THEN [k \in 1..Len(d) |->
             IF d[k].name = key THEN [name |-> key, text |-> value] ELSE d[k]]
    ELSE Append(d, [name |-> key, text |-> value])

\* post_process_extracted_data: every item is cleaned once more; the keys
\* of a dict are distinct, so processed_data gets them in the same order
post_process_extracted_data(data) ==
    [k \in 1..Len(data) |->
        [name |-> data[k].name,
         text |-> clean_extracted_text(data[k].name, data[k].text)]]

\* NextFieldIdx that skips a row
NextFieldIdxSkip(i) == i + 2

\* the for loop of line 134: the row after row i
NextFieldIdx(i) == i + 1

\* str(e) of an HTTPException
HttpExceptionText(status_code, detail) ==
    (IF status_code = 400 THEN "400" ELSE "500") \o ": " \o detail

InvalidFileType == "Invalid file type. Please upload a PNG or JPEG image."

\* RequestError that degrades to the fields extracted so far
RequestErrorPartial(message) ==
    [status |-> 200, detail |-> "", body |-> extracted_data]

\* lines 163-164 and 184-185: whatever was raised inside the handler, an
\* HTTPException included, leaves as a status-500 error
RequestError(message) ==
    [status |-> 500, detail |-> "Error processing the image: " \o message,
     body |-> <<>>]

\* lines 161 and 182
JsonResponse(cleaned_data) ==
    [status |-> 200, detail |-> "", body |-> cleaned_data]

AllowedContentTypes == {"image/png", "image/jpeg"}
ContentTypes == AllowedContentTypes \cup {"application/pdf"}

\* the uploads: bytes that are no image, a blank page, a page with a mark
Uploads ==
    { NoUpload,
      [valid |-> TRUE, image |-> NewImage(2, 2, <<255, 255, 255>>)],
      [valid |-> TRUE,
       image |-> RectImage(2, 2, <<255, 255, 255>>, <<0, 0, 0>>, <<1, 1, 2, 2>>)] }

\* the non-empty texts the OCR service answers with
OcrTexts ==
    { "12b 450.00", "VOID For Official Use Only 12345", "Wages ! extra" }

\* what ocr_space_request and the handler around it can raise
OcrFailures ==
    { HttpExceptionText(500, "OCR API error: ConnectionError"),
      "'ParsedText'" }

Init ==
    /\ endpoint \in {"extract", "extract_base64"}
    /\ content_type \in (IF endpoint = "extract" THEN ContentTypes ELSE {None})
    /\ upload \in Uploads
    /\ pc = "received"
    /\ decoded = FALSE /\ resized_image = NoImage
    /\ field_idx = 0 /\ cropped_img = NoCrop /\ ocr_calls = <<>>
    /\ raw_text = <<>> /\ cleaned_rows = <<>> /\ extracted_data = <<>>
    /\ text_replies = 0 /\ response = NoResponse
    /\ IdleClean /\ IdleTrim

\* the request ends in an error: the handler's locals are gone
Fail(message) ==
    /\ response' = RequestError(message)
    /\ pc' = "done"
    /\ field_idx' = 0 /\ cropped_img' = NoCrop /\ extracted_data' = <<>>

\* lines 155-158 (174-179): decode, trim, resize, and enter the field loop
\* up to its first OCR call
Process ==
    /\ decoded' = TRUE
    /\ IF ~upload.valid
       THEN /\ Fail("cannot identify image file")
            /\ UNCHANGED <<resized_image, ocr_calls>>
       ELSE /\ resized_image' = resize_image(trim_whitespace(upload.image),
                                             TEMPLATE_WIDTH, TEMPLATE_HEIGHT)
            /\ field_idx' = 1
            /\ cropped_img' = CropField(1)
            /\ ocr_calls' = <<1>>
            /\ pc' = "ocr"
            /\ UNCHANGED <<extracted_data, response>>
    /\ UNCHANGED <<endpoint, content_type, upload, raw_text, cleaned_rows,
                   text_replies, cleanVars, trimVars>>

\* POST /extract
extract_w2_data ==
    /\ pc = "received" /\ endpoint = "extract"
    /\ IF content_type \notin AllowedContentTypes
       THEN /\ Fail(HttpExceptionText(400, InvalidFileType))
            /\ UNCHANGED <<endpoint, content_type, upload, decoded,
                           resized_image, ocr_calls, raw_text, cleaned_rows,
                           text_replies, cleanVars, trimVars>>
       ELSE Process

\* POST /extract_base64
extract_w2_data_base64 ==
    /\ pc = "received" /\ endpoint = "extract_base64"
    /\ Process

\* ocr_space_request returns extracted_text for the row in flight
OcrReturns(extracted_text) ==
    /\ pc = "ocr"
    /\ raw_text' = Append(raw_text, extracted_text)
    /\ pc' = "clean"
    /\ UNCHANGED <<endpoint, content_type, upload, decoded, resized_image,
                   field_idx, cropped_img, ocr_calls, cleaned_rows,
                   extracted_data, response, cleanVars, trimVars>>

\* line 93: the service recognized text
OcrText ==
    /\ text_replies < MaxTextReplies
    /\ text_replies' = text_replies + 1
    /\ \E t \in OcrTexts : OcrReturns(t)

\* line 95: no parsed result
OcrEmpty ==
    /\ UNCHANGED text_replies
    /\ OcrReturns("")

\* lines 96-97, or any other exception of the call: the request fails
OcrFails ==
    /\ pc = "ocr"
    /\ \E e \in OcrFailures : Fail(e)
    /\ UNCHANGED <<endpoint, content_type, upload, decoded, resized_image,
                   ocr_calls, raw_text, cleaned_rows, text_replies,
                   cleanVars, trimVars>>

\* lines 138-139, then the next turn of the loop up to its OCR call or,
\* after the last row, lines 159-161 (180-182)
CleanAndContinue ==
    /\ pc = "clean"
    /\ cleaned_rows' = Append(cleaned_rows, field_idx)
    /\ extracted_data' =
           DictSet(extracted_data, FieldName(field_idx),
                   clean_extracted_text(FieldName(field_idx),
                                        raw_text[Len(raw_text)]))
    /\ IF NextFieldIdx(field_idx) <= NumFields
       THEN /\ field_idx' = NextFieldIdx(field_idx)
            /\ cropped_img' = CropField(field_idx')
            /\ ocr_calls' = Append(ocr_calls, field_idx')
            /\ pc' = "ocr"
            /\ UNCHANGED response
       ELSE /\ field_idx' = 0
            /\ cropped_img' = NoCrop
            /\ response' = JsonResponse(post_process_extracted_data(extracted_data'))
            /\ pc' = "done"
            /\ UNCHANGED ocr_calls
    /\ UNCHANGED <<endpoint, content_type, upload, decoded, resized_image,
                   raw_text, text_replies, cleanVars, trimVars>>

Next ==
    \/ extract_w2_data
    \/ extract_w2_data_base64
    \/ OcrText
    \/ OcrEmpty
    \/ OcrFails
    \/ CleanAndContinue

Spec == Init /\ [][Next]_vars

-----------------------------------------------------------------------------
(* Claims about a request, checked under Spec.                              *)

Succeeded == pc = "done" /\ response.status = 200
Failed == pc = "done" /\ response.status >= 400

\* C1: a request ends either with a mapping that has an entry for every
\* field of the table or with one request-level error and no mapping; a
\* mapping for only some of the fields is never returned.
C1_AllOrNothing ==
    /\ pc # "done" => response = NoResponse
    /\ pc = "done" =>
          \/ /\ response.status = 200
             /\ \A i \in Rows : DictHas(response.body, FieldName(i))
             /\ Len(response.body) = NumFields
          \/ /\ response.status >= 400
             /\ response.body = <<>>

C1_Witness ==
    /\ Failed
    /\ Len(cleaned_rows) = 3 /\ text_replies = 1
    /\ Len(ocr_calls) = 4

\* C2 as stated: a request without OCR failure returns exactly 25 entries,
\* in the order of the table rows.
C2_TwentyFiveEntriesInTableOrder ==
    Succeeded =>
        /\ Len(response.body) = 25
        /\ \A k \in 1..Len(response.body) : response.body[k].name = FieldName(k)

\* C2 amended: a request without OCR failure returns exactly 26 entries, one
\* per row of the table, in the order of the rows.
C2_TwentySixEntriesInTableOrder ==
    Succeeded =>
        /\ Len(response.body) = 26
        /\ \A k \in 1..Len(response.body) : response.body[k].name = FieldName(k)

C2_Witness ==
    /\ Succeeded
    /\ \A k \in 1..Len(raw_text) : raw_text[k] = ""
    /\ \A k \in 1..Len(response.body) : response.body[k].text = ""

\* C6: the crop of every table entry is as wide and as high as the entry.
C6_CropMatchesEntry ==
    pc \in {"ocr", "clean"} =>
        /\ cropped_img.w = svg_mapped_fields[field_idx].width
        /\ cropped_img.h = svg_mapped_fields[field_idx].height

\* C8, in every state: the OCR calls issued so far are rows 1, 2, ... of
\* the table, each once; a call is issued only when every earlier call has
\* returned and its text was cleaned; a text is cleaned only after its call
\* returned; a request that succeeds has called once for every row.
C8_State ==
    /\ \A k \in 1..Len(ocr_calls) : ocr_calls[k] = k
    /\ \A k \in 1..Len(cleaned_rows) : cleaned_rows[k] = k
    /\ Len(cleaned_rows) <= Len(raw_text)
    /\ Len(raw_text) <= Len(ocr_calls)
    /\ Len(ocr_calls) <= Len(cleaned_rows) + 1
    /\ pc = "ocr" => (field_idx = Len(ocr_calls) /\ Len(raw_text) = field_idx - 1)
    /\ pc = "clean" => (Len(raw_text) = field_idx /\ Len(cleaned_rows) = field_idx - 1)
    /\ (Failed /\ ocr_calls # <<>>) => Len(raw_text) = Len(ocr_calls) - 1
    /\ Succeeded => (Len(ocr_calls) = NumFields /\ Len(raw_text) = NumFields)

\* C8, in every step: once the request has a response, the failure of an
\* OCR call included, nothing more happens; a step issues at most one call.
C8_Step ==
    /\ response = NoResponse
    /\ Len(ocr_calls') <= Len(ocr_calls) + 1
    /\ (pc = "ocr" /\ pc' = "done") => ocr_calls' = ocr_calls

\* C8: the OCR calls of a request are sequential, in table order, one per
\* field, and stop at the first failure.
C8_SequentialOcr == []C8_State /\ [][C8_Step]_vars

C8_Witness ==
    /\ Failed
    /\ ocr_calls = <<1, 2, 3>>
    /\ Len(raw_text) = 2 /\ raw_text[2] = "12b 450.00"

\* C9: an upload to /extract of another content type is rejected before
\* any decoding or OCR call, with the status-400 "Invalid file type" error.
C9_InvalidTypeRejectedWith400 ==
    (pc = "done" /\ endpoint = "extract" /\ content_type \notin AllowedContentTypes)
    => /\ ~decoded
       /\ resized_image = NoImage
       /\ ocr_calls = <<>>
       /\ response.status = 400
       /\ response.detail = InvalidFileType

\* C10: every value returned to the caller equals one application of the
\* cleaner to the raw OCR text of its field.
C10_SecondPassChangesNothing ==
    Succeeded =>
        \A k \in 1..Len(response.body) :
            response.body[k].text =
                clean_extracted_text(FieldName(k), raw_text[k])

=============================================================================
